---- MODULE Spec2Model ----
(***************************************************************************)
(* The payment service of src/payment_service: the processor factory, the  *)
(* builder, the customer validation chain and the PaymentService           *)
(* orchestrator (process_transaction, process_refund, setup_recurring).    *)
(*                                                                         *)
(* Python objects are modelled by the name of their class, None by         *)
(* NoneVal. A call that raises is a record with raised = TRUE and the      *)
(* exception's message. Every call a service operation makes on one of its *)
(* collaborators is appended to the sequence calls, with its outcome.      *)
(***************************************************************************)
EXTENDS Integers, Sequences, FiniteSets, TLC

VARIABLES
    builder,    \* the PaymentServiceBuilder's fields (builder.py:26-34)
    service,    \* the PaymentService's fields (service.py:23-31); exists = FALSE before construction
    calls,      \* the collaborator calls made by the last operation, in order
    result,     \* the outcome of the last operation: returned value or raised error
    args        \* the arguments of the last operation

vars == <<builder, service, calls, result, args>>

----------------------------------------------------------------------------
(* Values *)

NoneVal == "None"

\* bool(v) of an Optional[str] or of an Optional[object of a class that defines
\* neither __bool__ nor __len__]: None and "" are false, everything else true.
Truthy(v) == v # NoneVal /\ v # ""

\* bool(m) of an instance of a pydantic model (ContactInfo): always true.
ModelTruthy(m) == TRUE

\* Longest validation chain built directly (a chain is a linked list of handlers).
MaxChain == 2

Names == {"", "Jon Doe"}
Emails == {NoneVal, "", "jon@gmail.com"}
Phones == {NoneVal, "5512345678"}
Amounts == {-1, 0, 100}
Sources == {"", "tok_visa"}
Currencies == {"MXN", "USD"}
PaymentTypes == {"OFFLINE", "ONLINE", "CRYPTO"}
TransactionIds == {"ch_1", "ch_2"}

ContactInfo == [email : Emails, phone : Phones]
CustomerData == [name : Names, contact_info : ContactInfo]
PaymentData == [amount : Amounts, source : Sources, currency : Currencies, type : PaymentTypes]

\* The service operations read neither the type nor the currency of a payment, the
\* factory neither its amount nor its source, set_notifier not the customer's name.
ServicePayments == {p \in PaymentData : p.type = "ONLINE" /\ p.currency = "MXN" /\ p.amount = 100}
ServiceCustomers == {c \in CustomerData : c.contact_info.email # ""}
FactoryPayments == {p \in PaymentData : p.amount = 100 /\ p.source = "tok_visa"}
NotifierCustomers == {c \in CustomerData : c.name = "Jon Doe"}

NoCustomer == [name |-> NoneVal, contact_info |-> [email |-> NoneVal, phone |-> NoneVal]]
NoPayment == [amount |-> 0, source |-> NoneVal, currency |-> NoneVal, type |-> NoneVal]
NoResponse == [status |-> NoneVal, transaction_id |-> NoneVal]
NoArgs == [customer_data |-> NoCustomer, payment_data |-> NoPayment, transaction_id |-> NoneVal]

\* A validation chain is the sequence of its handlers, head first; no chain is <<>>.
NoChain == <<>>
Chains == UNION {[1..n -> {"CustomerHandler"}] : n \in 1..MaxChain}

\* What the last operation did: it returned value (and, for a service operation,
\* the response), or it raised error (build's error carries the list missing).
Returned(op, value, response) ==
    [op |-> op, raised |-> FALSE, error |-> "", value |-> value,
     response |-> response, missing |-> <<>>]
Raised(op, error, missing) ==
    [op |-> op, raised |-> TRUE, error |-> error, value |-> NoneVal,
     response |-> NoResponse, missing |-> missing]

----------------------------------------------------------------------------
(* factory.py *)

\* The factory with the two online processors swapped and a default processor
\* for an unsupported type.
create_payment_processor_swapped(payment_data) ==
    IF payment_data.type = "OFFLINE"
    THEN [raised |-> FALSE, error |-> "", value |-> "OfflinePaymentProcessor"]
    ELSE IF payment_data.type = "ONLINE"
    THEN IF payment_data.currency = "MXN"
         THEN [raised |-> FALSE, error |-> "", value |-> "LocalPaymentProcessor"]
         ELSE [raised |-> FALSE, error |-> "", value |-> "StripePaymentProcessor"]
    ELSE [raised |-> FALSE, error |-> "", value |-> "OfflinePaymentProcessor"]

\* PaymentProcessorFactory.create_payment_processor
create_payment_processor(payment_data) ==
    IF payment_data.type = "OFFLINE"
    THEN [raised |-> FALSE, error |-> "", value |-> "OfflinePaymentProcessor"]
    ELSE IF payment_data.type = "ONLINE"
    THEN IF payment_data.currency = "MXN"
         THEN [raised |-> FALSE, error |-> "", value |-> "StripePaymentProcessor"]
         ELSE [raised |-> FALSE, error |-> "", value |-> "LocalPaymentProcessor"]
    ELSE [raised |-> TRUE, error |-> "No se soporta este tipo de pago", value |-> NoneVal]

----------------------------------------------------------------------------
(* builder.py *)

\* The dataclass defaults of PaymentServiceBuilder.
NewBuilder ==
    [payment_processor |-> NoneVal, notifier |-> NoneVal, validator |-> NoChain,
     logger |-> NoneVal, listener |-> NoneVal,
     recurring_processor |-> NoneVal, refund_processor |-> NoneVal]

NoService ==
    [exists |-> FALSE, payment_processor |-> NoneVal, notifier |-> NoneVal,
     validators |-> NoChain, logger |-> NoneVal, listeners |-> NoneVal,
     recurring_processor |-> NoneVal, refund_processor |-> NoneVal]

\* The outcome of a builder method: the builder's fields afterwards and what the
\* call returned ("self") or raised.
BuilderReturns(b) == [b |-> b, raised |-> FALSE, error |-> "", value |-> "self"]
BuilderRaises(b, error) == [b |-> b, raised |-> TRUE, error |-> error, value |-> NoneVal]

set_logger(b) == BuilderReturns([b EXCEPT !.logger = "TransactionLogger"])

set_payment_processor(b, payment_data) ==
    LET made == create_payment_processor(payment_data)
    IN  IF made.raised
        THEN BuilderRaises(b, made.error)
        ELSE BuilderReturns([b EXCEPT !.payment_processor = made.value])

set_chain_of_validations(b) == BuilderReturns([b EXCEPT !.validator = <<"CustomerHandler">>])

\* set_notifier clearing the field before it chooses.
set_notifier_clears_first(b, customer_data) ==
    IF Truthy(customer_data.contact_info.email)
    THEN BuilderReturns([b EXCEPT !.notifier = "EmailNotifier"])
    ELSE IF Truthy(customer_data.contact_info.phone)
    THEN BuilderReturns([b EXCEPT !.notifier = "SMSNotifier"])
    ELSE BuilderRaises([b EXCEPT !.notifier = NoneVal],
                       "No se puede seleccionar la clase de notificación")

\* set_notifier preferring the phone, as get_notifier_implementation of main.py does.
set_notifier_phone_first(b, customer_data) ==
    IF Truthy(customer_data.contact_info.phone)
    THEN BuilderReturns([b EXCEPT !.notifier = "SMSNotifier"])
    ELSE IF Truthy(customer_data.contact_info.email)
    THEN BuilderReturns([b EXCEPT !.notifier = "EmailNotifier"])
    ELSE BuilderRaises(b, "No se puede seleccionar la clase de notificación")

set_notifier(b, customer_data) ==
    IF Truthy(customer_data.contact_info.email)
    THEN BuilderReturns([b EXCEPT !.notifier = "EmailNotifier"])
    ELSE IF Truthy(customer_data.contact_info.phone)
    THEN BuilderReturns([b EXCEPT !.notifier = "SMSNotifier"])
    ELSE BuilderRaises(b, "No se puede seleccionar la clase de notificación")

set_listeners(b) == BuilderReturns([b EXCEPT !.listener = "ListenersManager"])

\* build() looking at four of its five collaborators.
Mandatory_without_listener(b) ==
    << [name |-> "payment_processor", set |-> b.payment_processor # NoneVal, truthy |-> Truthy(b.payment_processor)],
       [name |-> "notifier", set |-> b.notifier # NoneVal, truthy |-> Truthy(b.notifier)],
       [name |-> "validator", set |-> b.validator # NoChain, truthy |-> b.validator # NoChain],
       [name |-> "logger", set |-> b.logger # NoneVal, truthy |-> Truthy(b.logger)] >>

\* The five (name, value) pairs build() looks at, in the order of builder.py:93-97.
\* set is TRUE when the value is not None.
Mandatory(b) ==
    << [name |-> "payment_processor", set |-> b.payment_processor # NoneVal, truthy |-> Truthy(b.payment_processor)],
       [name |-> "notifier", set |-> b.notifier # NoneVal, truthy |-> Truthy(b.notifier)],
       [name |-> "validator", set |-> b.validator # NoChain, truthy |-> b.validator # NoChain],
       [name |-> "logger", set |-> b.logger # NoneVal, truthy |-> Truthy(b.logger)],
       [name |-> "listener", set |-> b.listener # NoneVal, truthy |-> Truthy(b.listener)] >>

IsUnset(field) == ~field.set

\* build() handing the builder's optional processors to the service.
build_passes_optional(b) ==
    IF ~(\A i \in 1..Len(Mandatory(b)) : Mandatory(b)[i].truthy)
    THEN [raised |-> TRUE, error |-> "Missing dependencies",
          missing |-> [i \in 1..Len(SelectSeq(Mandatory(b), IsUnset)) |->
                          SelectSeq(Mandatory(b), IsUnset)[i].name],
          service |-> NoService]
    ELSE [raised |-> FALSE, error |-> "", missing |-> <<>>,
          service |-> [exists |-> TRUE,
                       payment_processor |-> b.payment_processor,
                       notifier |-> b.notifier,
                       validators |-> b.validator,
                       logger |-> b.logger,
                       listeners |-> b.listener,
                       recurring_processor |-> b.recurring_processor,
                       refund_processor |-> b.refund_processor]]

\* PaymentServiceBuilder.build: missing is the list of the names of builder.py:90-100.
build(b) ==
    IF ~(\A i \in 1..Len(Mandatory(b)) : Mandatory(b)[i].truthy)
    THEN [raised |-> TRUE, error |-> "Missing dependencies",
          missing |-> [i \in 1..Len(SelectSeq(Mandatory(b), IsUnset)) |->
                          SelectSeq(Mandatory(b), IsUnset)[i].name],
          service |-> NoService]
    ELSE [raised |-> FALSE, error |-> "", missing |-> <<>>,
          service |-> [exists |-> TRUE,
                       payment_processor |-> b.payment_processor,
                       notifier |-> b.notifier,
                       validators |-> b.validator,
                       logger |-> b.logger,
                       listeners |-> b.listener,
                       recurring_processor |-> NoneVal,
                       refund_processor |-> NoneVal]]

----------------------------------------------------------------------------
(* The collaborators of a PaymentService *)

Processors == {"OfflinePaymentProcessor", "StripePaymentProcessor", "LocalPaymentProcessor"}
Notifiers == {"EmailNotifier", "SMSNotifier"}
Collaborators == {"payment_processor", "listeners", "notifier", "logger",
                  "refund_processor", "recurring_processor"}

\* What a processor returns when it does not fail.
Responses == [status : {"succeeded"}, transaction_id : TransactionIds]

\* The behaviour of the collaborators during one operation: the collaborators
\* whose call fails, and the response a processor returns when it does not. An
\* operation ends at the first call that fails, so one failing collaborator is
\* every case there is.
Envs(targets) == [failing : {{}} \cup {{target} : target \in targets}, response : Responses]

ErrorOf(target) ==
    CASE target = "payment_processor" -> "ProcessingError"
      [] target = "refund_processor" -> "ProcessingError"
      [] target = "recurring_processor" -> "ProcessingError"
      [] target = "listeners" -> "ListenerError"
      [] target = "notifier" -> "NotifierError"
      [] target = "logger" -> "LoggerError"

\* One call of method on the collaborator held in field target (obj is its class).
Call(target, obj, method, callArgs, returns, env) ==
    IF target \in env.failing
    THEN [target |-> target, obj |-> obj, method |-> method, args |-> callArgs,
          outcome |-> "raised", returns |-> NoResponse]
    ELSE [target |-> target, obj |-> obj, method |-> method, args |-> callArgs,
          outcome |-> "returned", returns |-> returns]

\* The outcome of a service operation.
Fails(error, made) ==
    [raised |-> TRUE, error |-> error, calls |-> made, response |-> NoResponse]
Succeeds(response, made) ==
    [raised |-> FALSE, error |-> "", calls |-> made, response |-> response]

----------------------------------------------------------------------------
(* validators *)

\* A validator that checks nothing.
validate_accepts_all(customer_data) == ""

\* CustomerValidator.validate: the message of the ValueError raised, "" when the
\* customer is accepted.
validate(customer_data) ==
    IF ~Truthy(customer_data.name)
    THEN "Invalid customer data: missing name"
    ELSE IF ~ModelTruthy(customer_data.contact_info)
    THEN "Invalid customer data: missing contact info"
    ELSE IF ~(Truthy(customer_data.contact_info.email) \/ ModelTruthy(customer_data.contact_info))
    THEN "Invalid customer data: missing email and phone"
    ELSE ""

\* The call validator.validate(request.customer_data) a handler makes.
ValidateCall(request, error) ==
    [target |-> "CustomerValidator", obj |-> "CustomerValidator",
     method |-> "validate", args |-> <<request.customer_data>>,
     outcome |-> IF error = "" THEN "returned" ELSE "raised",
     returns |-> NoResponse]

\* The call self._nex_handler.handle(request) a handler makes on the handler next.
ForwardCall(next, request, raised) ==
    [target |-> "_nex_handler", obj |-> next, method |-> "handle", args |-> <<request>>,
     outcome |-> IF raised THEN "raised" ELSE "returned",
     returns |-> NoResponse]

\* A handler that forwards the request also when its own validation failed, and
\* raises its error afterwards.
RECURSIVE handle_forwards_anyway(_, _)
handle_forwards_anyway(chain, request) ==
    LET error == validate(request.customer_data)
    IN  IF Tail(chain) # NoChain
        THEN LET next == handle_forwards_anyway(Tail(chain), request)
                 made == <<ValidateCall(request, error),
                           ForwardCall(Head(Tail(chain)), request, next.raised)>> \o next.calls
             IN  IF error # "" THEN Fails(error, made)
                 ELSE [next EXCEPT !.calls = made]
        ELSE IF error # "" THEN Fails(error, <<ValidateCall(request, error)>>)
        ELSE Succeeds(NoResponse, <<ValidateCall(request, error)>>)

\* CustomerHandler.handle on the chain whose head is chain[1]: validate, then forward
\* to the next handler if there is one; an exception is re-raised.
RECURSIVE handle(_, _)
handle(chain, request) ==
    LET error == validate(request.customer_data)
        call == ValidateCall(request, error)
    IN  IF error # ""
        THEN Fails(error, <<call>>)
        ELSE IF Tail(chain) # NoChain
        THEN LET next == handle(Tail(chain), request)
             IN  [next EXCEPT !.calls =
                    <<call, ForwardCall(Head(Tail(chain)), request, next.raised)>> \o next.calls]
        ELSE Succeeds(NoResponse, <<call>>)

----------------------------------------------------------------------------
(* service.py *)

\* The calls of the validation stage of process_transaction, the chain's included.
ValidationCalls(s, request) ==
    LET checked == handle(s.validators, request)
    IN  <<[target |-> "validators", obj |-> Head(s.validators), method |-> "handle",
           args |-> <<request>>,
           outcome |-> IF checked.raised THEN "raised" ELSE "returned",
           returns |-> NoResponse]>> \o checked.calls

\* process_transaction with the customer notified before the listeners.
process_transaction_notifier_first(s, customer_data, payment_data, env) ==
    LET request == [customer_data |-> customer_data, payment_data |-> payment_data]
        checked == handle(s.validators, request)
        c0 == ValidationCalls(s, request)
        e1 == Call("payment_processor", s.payment_processor, "process_transaction",
                   <<customer_data, payment_data>>, env.response, env)
        e2 == Call("notifier", s.notifier, "send_confirmation", <<customer_data>>,
                   NoResponse, env)
        e3 == Call("listeners", s.listeners, "notifyAll",
                   << <<"Pago exitoso al evento: ", e1.returns.transaction_id>> >>,
                   NoResponse, env)
        e4 == Call("logger", s.logger, "log_transaction",
                   <<customer_data, payment_data, e1.returns>>, NoResponse, env)
    IN  IF checked.raised THEN Fails(checked.error, c0)
        ELSE IF e1.outcome = "raised" THEN Fails(ErrorOf(e1.target), c0 \o <<e1>>)
        ELSE IF e2.outcome = "raised" THEN Fails(ErrorOf(e2.target), c0 \o <<e1, e2>>)
        ELSE IF e3.outcome = "raised" THEN Fails(ErrorOf(e3.target), c0 \o <<e1, e2, e3>>)
        ELSE IF e4.outcome = "raised" THEN Fails(ErrorOf(e4.target), c0 \o <<e1, e2, e3, e4>>)
        ELSE Succeeds(e1.returns, c0 \o <<e1, e2, e3, e4>>)

\* process_transaction with the logging in a finally clause: it logs also when the
\* processor, the listeners or the notifier failed.
process_transaction_logs_anyway(s, customer_data, payment_data, env) ==
    LET request == [customer_data |-> customer_data, payment_data |-> payment_data]
        checked == handle(s.validators, request)
        c0 == ValidationCalls(s, request)
        e1 == Call("payment_processor", s.payment_processor, "process_transaction",
                   <<customer_data, payment_data>>, env.response, env)
        e2 == Call("listeners", s.listeners, "notifyAll",
                   << <<"Pago exitoso al evento: ", e1.returns.transaction_id>> >>,
                   NoResponse, env)
        e3 == Call("notifier", s.notifier, "send_confirmation", <<customer_data>>,
                   NoResponse, env)
        e4 == Call("logger", s.logger, "log_transaction",
                   <<customer_data, payment_data, e1.returns>>, NoResponse, env)
    IN  IF checked.raised THEN Fails(checked.error, c0)
        ELSE IF e1.outcome = "raised" THEN Fails(ErrorOf(e1.target), c0 \o <<e1, e4>>)
        ELSE IF e2.outcome = "raised" THEN Fails(ErrorOf(e2.target), c0 \o <<e1, e2, e4>>)
        ELSE IF e3.outcome = "raised" THEN Fails(ErrorOf(e3.target), c0 \o <<e1, e2, e3, e4>>)
        ELSE IF e4.outcome = "raised" THEN Fails(ErrorOf(e4.target), c0 \o <<e1, e2, e3, e4>>)
        ELSE Succeeds(e1.returns, c0 \o <<e1, e2, e3, e4>>)

\* PaymentService.process_transaction
process_transaction(s, customer_data, payment_data, env) ==
    LET request == [customer_data |-> customer_data, payment_data |-> payment_data]
        checked == handle(s.validators, request)
        c0 == ValidationCalls(s, request)
    IN  IF checked.raised
        THEN Fails(checked.error, c0)
        ELSE
    LET e1 == Call("payment_processor", s.payment_processor, "process_transaction",
                   <<customer_data, payment_data>>, env.response, env)
        payment_response == e1.returns
    IN  IF e1.outcome = "raised"
        THEN Fails(ErrorOf("payment_processor"), c0 \o <<e1>>)
        ELSE
    LET e2 == Call("listeners", s.listeners, "notifyAll",
                   << <<"Pago exitoso al evento: ", payment_response.transaction_id>> >>,
                   NoResponse, env)
    IN  IF e2.outcome = "raised"
        THEN Fails(ErrorOf("listeners"), c0 \o <<e1, e2>>)
        ELSE
    LET e3 == Call("notifier", s.notifier, "send_confirmation", <<customer_data>>,
                   NoResponse, env)
    IN  IF e3.outcome = "raised"
        THEN Fails(ErrorOf("notifier"), c0 \o <<e1, e2, e3>>)
        ELSE
    LET e4 == Call("logger", s.logger, "log_transaction",
                   <<customer_data, payment_data, payment_response>>, NoResponse, env)
    IN  IF e4.outcome = "raised"
        THEN Fails(ErrorOf("logger"), c0 \o <<e1, e2, e3, e4>>)
        ELSE Succeeds(payment_response, c0 \o <<e1, e2, e3, e4>>)

\* process_refund without the check that a refund processor is configured.
process_refund_unguarded(s, transaction_id, env) ==
    LET e1 == Call("refund_processor", s.refund_processor, "refund_payment",
                   <<transaction_id>>, env.response, env)
        e2 == Call("logger", s.logger, "log_refund", <<transaction_id, e1.returns>>,
                   NoResponse, env)
    IN  IF e1.outcome = "raised"
        THEN Fails(ErrorOf("refund_processor"), <<e1>>)
        ELSE IF e2.outcome = "raised"
        THEN Fails(ErrorOf("logger"), <<e1, e2>>)
        ELSE Succeeds(e1.returns, <<e1, e2>>)

\* PaymentService.process_refund
process_refund(s, transaction_id, env) ==
    IF ~Truthy(s.refund_processor)
    THEN Fails("this processor does not support refunds", <<>>)
    ELSE
    LET e1 == Call("refund_processor", s.refund_processor, "refund_payment",
                   <<transaction_id>>, env.response, env)
        refund_response == e1.returns
    IN  IF e1.outcome = "raised"
        THEN Fails(ErrorOf("refund_processor"), <<e1>>)
        ELSE
    LET e2 == Call("logger", s.logger, "log_refund", <<transaction_id, refund_response>>,
                   NoResponse, env)
    IN  IF e2.outcome = "raised"
        THEN Fails(ErrorOf("logger"), <<e1, e2>>)
        ELSE Succeeds(refund_response, <<e1, e2>>)

\* PaymentService.setup_recurring
setup_recurring(s, customer_data, payment_data, env) ==
    IF ~Truthy(s.recurring_processor)
    THEN Fails("this processor does not support recurring", <<>>)
    ELSE
    LET e1 == Call("recurring_processor", s.recurring_processor, "setup_recurring_payment",
                   <<customer_data, payment_data>>, env.response, env)
        recurring_response == e1.returns
    IN  IF e1.outcome = "raised"
        THEN Fails(ErrorOf("recurring_processor"), <<e1>>)
        ELSE
    LET e2 == Call("logger", s.logger, "log_transaction",
                   <<customer_data, payment_data, recurring_response>>, NoResponse, env)
    IN  IF e2.outcome = "raised"
        THEN Fails(ErrorOf("logger"), <<e1, e2>>)
        ELSE Succeeds(recurring_response, <<e1, e2>>)

----------------------------------------------------------------------------
(* main.py *)

get_email_notifier == "EmailNotifier"

get_sms_notifier == "SMSNotifier"

\* get_notifier_implementation: the notifier returned, or the ValueError raised.
get_notifier_implementation(customer_data) ==
    IF Truthy(customer_data.contact_info.phone)
    THEN [raised |-> FALSE, error |-> "", value |-> get_sms_notifier]
    ELSE IF Truthy(customer_data.contact_info.email)
    THEN [raised |-> FALSE, error |-> "", value |-> get_email_notifier]
    ELSE [raised |-> TRUE, error |-> "No se puede elegir la estrategia correcta",
          value |-> NoneVal]

\* The script of main.py:50-60 for a customer and a payment: the chained builder
\* calls, build() and process_transaction; the first exception ends the script.
main(customer_data, payment_data, env) ==
    LET b1 == set_logger(NewBuilder)
        b2 == set_payment_processor(b1.b, payment_data)
        b3 == set_chain_of_validations(b2.b)
        b4 == set_notifier(b3.b, customer_data)
        b5 == set_listeners(b4.b)
        built == build(b5.b)
        done == process_transaction(built.service, customer_data, payment_data, env)
    IN  IF b2.raised
        THEN [builder |-> b2.b, service |-> NoService, calls |-> <<>>,
              result |-> Raised("set_payment_processor", b2.error, <<>>)]
        ELSE IF b4.raised
        THEN [builder |-> b4.b, service |-> NoService, calls |-> <<>>,
              result |-> Raised("set_notifier", b4.error, <<>>)]
        ELSE IF built.raised
        THEN [builder |-> b5.b, service |-> NoService, calls |-> <<>>,
              result |-> Raised("build", built.error, built.missing)]
        ELSE IF done.raised
        THEN [builder |-> b5.b, service |-> built.service, calls |-> done.calls,
              result |-> Raised("process_transaction", done.error, <<>>)]
        ELSE [builder |-> b5.b, service |-> built.service, calls |-> done.calls,
              result |-> Returned("process_transaction", "PaymentResponse", done.response)]

----------------------------------------------------------------------------
(* The builder used through its methods, in any order *)

Init ==
    /\ builder = NewBuilder
    /\ service = NoService
    /\ calls = <<>>
    /\ result = Returned("PaymentServiceBuilder", "PaymentServiceBuilder", NoResponse)
    /\ args = NoArgs

\* What a builder method did, as the result of the operation op.
BuilderResult(op, r) ==
    IF r.raised THEN Raised(op, r.error, <<>>) ELSE Returned(op, r.value, NoResponse)

BuilderStep(op, r, a) ==
    /\ builder' = r.b
    /\ result' = BuilderResult(op, r)
    /\ args' = a
    /\ calls' = <<>>
    /\ UNCHANGED service

\* PaymentServiceBuilder(recurring_processor=..., refund_processor=...): the two
\* optional fields have no set_ method.
NewPaymentServiceBuilder(recurring, refund) ==
    /\ builder' = [NewBuilder EXCEPT !.recurring_processor = recurring,
                                     !.refund_processor = refund]
    /\ result' = Returned("PaymentServiceBuilder", "PaymentServiceBuilder", NoResponse)
    /\ args' = NoArgs
    /\ calls' = <<>>
    /\ UNCHANGED service

SetLogger == BuilderStep("set_logger", set_logger(builder), NoArgs)

SetPaymentProcessor(payment_data) ==
    BuilderStep("set_payment_processor", set_payment_processor(builder, payment_data),
                [NoArgs EXCEPT !.payment_data = payment_data])

SetChainOfValidations ==
    BuilderStep("set_chain_of_validations", set_chain_of_validations(builder), NoArgs)

SetNotifier(customer_data) ==
    BuilderStep("set_notifier", set_notifier(builder, customer_data),
                [NoArgs EXCEPT !.customer_data = customer_data])

SetListeners == BuilderStep("set_listeners", set_listeners(builder), NoArgs)

Build ==
    LET r == build(builder)
    IN  /\ service' = IF r.raised THEN service ELSE r.service
        /\ result' = IF r.raised THEN Raised("build", r.error, r.missing)
                                 ELSE Returned("build", "PaymentService", NoResponse)
        /\ args' = NoArgs
        /\ calls' = <<>>
        /\ UNCHANGED builder

CreatePaymentProcessor(payment_data) ==
    LET r == create_payment_processor(payment_data)
    IN  /\ result' = IF r.raised THEN Raised("create_payment_processor", r.error, <<>>)
                                 ELSE Returned("create_payment_processor", r.value, NoResponse)
        /\ args' = [NoArgs EXCEPT !.payment_data = payment_data]
        /\ calls' = <<>>
        /\ UNCHANGED <<builder, service>>

GetNotifierImplementation(customer_data) ==
    LET r == get_notifier_implementation(customer_data)
    IN  /\ result' = IF r.raised THEN Raised("get_notifier_implementation", r.error, <<>>)
                                 ELSE Returned("get_notifier_implementation", r.value, NoResponse)
        /\ args' = [NoArgs EXCEPT !.customer_data = customer_data]
        /\ calls' = <<>>
        /\ UNCHANGED <<builder, service>>

Next ==
    \/ \E recurring \in {NoneVal, "StripePaymentProcessor"},
          refund \in {NoneVal, "StripePaymentProcessor"} :
            NewPaymentServiceBuilder(recurring, refund)
    \/ SetLogger
    \/ \E payment_data \in FactoryPayments : SetPaymentProcessor(payment_data)
    \/ SetChainOfValidations
    \/ \E customer_data \in NotifierCustomers : SetNotifier(customer_data)
    \/ SetListeners
    \/ Build
    \/ \E payment_data \in FactoryPayments : CreatePaymentProcessor(payment_data)
    \/ \E customer_data \in NotifierCustomers : GetNotifierImplementation(customer_data)

Spec == Init /\ [][Next]_vars

----------------------------------------------------------------------------
(* A PaymentService and its operations *)

\* The services the dataclass constructor PaymentService(...) makes.
Services ==
    [exists : {TRUE}, payment_processor : Processors, notifier : Notifiers,
     validators : Chains, logger : {"TransactionLogger"}, listeners : {"ListenersManager"},
     recurring_processor : {NoneVal, "StripePaymentProcessor"},
     refund_processor : {NoneVal, "StripePaymentProcessor"}]

InitService ==
    /\ builder = NewBuilder
    /\ service \in Services
    /\ calls = <<>>
    /\ result = Returned("PaymentService", "PaymentService", NoResponse)
    /\ args = NoArgs

ServiceStep(op, r, a) ==
    /\ calls' = r.calls
    /\ result' = IF r.raised THEN Raised(op, r.error, <<>>)
                             ELSE Returned(op, "response", r.response)
    /\ args' = a
    /\ UNCHANGED <<builder, service>>

ProcessTransaction(customer_data, payment_data, env) ==
    /\ service.exists
    /\ ServiceStep("process_transaction",
                   process_transaction(service, customer_data, payment_data, env),
                   [NoArgs EXCEPT !.customer_data = customer_data,
                                  !.payment_data = payment_data])

ProcessRefund(transaction_id, env) ==
    /\ service.exists
    /\ ServiceStep("process_refund", process_refund(service, transaction_id, env),
                   [NoArgs EXCEPT !.transaction_id = transaction_id])

SetupRecurring(customer_data, payment_data, env) ==
    /\ service.exists
    /\ ServiceStep("setup_recurring",
                   setup_recurring(service, customer_data, payment_data, env),
                   [NoArgs EXCEPT !.customer_data = customer_data,
                                  !.payment_data = payment_data])

NextService ==
    \/ \E customer_data \in ServiceCustomers, payment_data \in ServicePayments,
          env \in Envs({"payment_processor", "listeners", "notifier", "logger"}) :
            ProcessTransaction(customer_data, payment_data, env)
    \/ \E transaction_id \in TransactionIds, env \in Envs({"refund_processor", "logger"}) :
            ProcessRefund(transaction_id, env)
    \/ \E customer_data \in ServiceCustomers, payment_data \in ServicePayments,
          env \in Envs({"recurring_processor", "logger"}) :
            SetupRecurring(customer_data, payment_data, env)

SpecService == InitService /\ [][NextService]_vars

----------------------------------------------------------------------------
(* The script of main.py, run once *)

Main(customer_data, payment_data, env) ==
    LET r == main(customer_data, payment_data, env)
    IN  /\ result.op = "PaymentServiceBuilder"
        /\ builder' = r.builder
        /\ service' = r.service
        /\ calls' = r.calls
        /\ result' = r.result
        /\ args' = [NoArgs EXCEPT !.customer_data = customer_data,
                                  !.payment_data = payment_data]

NextMain ==
    \E customer_data \in CustomerData, payment_data \in PaymentData,
       env \in Envs({"payment_processor", "listeners", "notifier", "logger"}) :
        Main(customer_data, payment_data, env)

SpecMain == Init /\ [][NextMain]_vars

----------------------------------------------------------------------------
(* A service made by build() and its optional operations *)

\* The builders the dataclass constructor PaymentServiceBuilder(...) makes.
Builders ==
    [payment_processor : Processors \cup {NoneVal}, notifier : Notifiers \cup {NoneVal},
     validator : Chains \cup {NoChain}, logger : {NoneVal, "TransactionLogger"},
     listener : {NoneVal, "ListenersManager"},
     recurring_processor : {NoneVal, "StripePaymentProcessor"},
     refund_processor : {NoneVal, "StripePaymentProcessor"}]

InitBuilt ==
    /\ builder \in Builders
    /\ service = NoService
    /\ calls = <<>>
    /\ result = Returned("PaymentServiceBuilder", "PaymentServiceBuilder", NoResponse)
    /\ args = NoArgs

NextBuilt ==
    \/ Build
    \/ \E transaction_id \in TransactionIds, env \in Envs({"refund_processor", "logger"}) :
            ProcessRefund(transaction_id, env)
    \/ \E customer_data \in ServiceCustomers, payment_data \in ServicePayments,
          env \in Envs({"recurring_processor", "logger"}) :
            SetupRecurring(customer_data, payment_data, env)

SpecBuilt == InitBuilt /\ [][NextBuilt]_vars

----------------------------------------------------------------------------
(* Properties *)

IsStage(call) == call.target \notin {"CustomerValidator", "_nex_handler"}
IsRaised(call) == call.outcome = "raised"

\* The calls the service itself made, without those made inside the chain.
Stages == SelectSeq(calls, IsStage)

CallsTo(target) == {i \in 1..Len(calls) : calls[i].target = target}

ValidationMessages ==
    {"Invalid customer data: missing name",
     "Invalid customer data: missing contact info",
     "Invalid customer data: missing email and phone"}

\* The last operation failed with an error raised by the validation chain.
FailedValidation ==
    /\ result.raised
    /\ result.error \in ValidationMessages
    /\ \E i \in CallsTo("CustomerValidator") : IsRaised(calls[i])

\* C1: when process_transaction's validation chain accepts the request and no
\* collaborator fails, the service makes exactly five calls, in this order:
\* validators.handle, payment_processor.process_transaction, listeners.notifyAll
\* with a message holding the response's transaction id, notifier.send_confirmation,
\* logger.log_transaction; and it returns the response the processor produced.
C1_StagesInOrder ==
    (result.op = "process_transaction" /\ \A i \in 1..Len(calls) : ~IsRaised(calls[i]))
    => /\ ~result.raised
       /\ Len(Stages) = 5
       /\ Stages[1].target = "validators" /\ Stages[1].method = "handle"
       /\ Stages[1].args = <<[customer_data |-> args.customer_data,
                              payment_data |-> args.payment_data]>>
       /\ Stages[2].target = "payment_processor"
       /\ Stages[2].method = "process_transaction"
       /\ Stages[2].obj = service.payment_processor
       /\ Stages[2].args = <<args.customer_data, args.payment_data>>
       /\ Stages[3].target = "listeners" /\ Stages[3].method = "notifyAll"
       /\ Stages[3].obj = service.listeners
       /\ Stages[3].args = << <<"Pago exitoso al evento: ", result.response.transaction_id>> >>
       /\ Stages[4].target = "notifier" /\ Stages[4].method = "send_confirmation"
       /\ Stages[4].obj = service.notifier
       /\ Stages[4].args = <<args.customer_data>>
       /\ Stages[5].target = "logger" /\ Stages[5].method = "log_transaction"
       /\ Stages[5].obj = service.logger
       /\ Stages[5].args = <<args.customer_data, args.payment_data, result.response>>
       /\ result.response = Stages[2].returns
       /\ result.response \in Responses

C1_Witness ==
    /\ result.op = "process_transaction"
    /\ ~result.raised
    /\ Len(Stages) = 5
    /\ result.response.transaction_id = "ch_2"

\* C2: process_transaction for a customer with an empty name raises the
\* validator's error to the caller and calls neither the processor, nor the
\* listeners, nor the notifier, nor the logger.
C2_EmptyNameRejected ==
    (result.op = "process_transaction" /\ args.customer_data.name = "")
    => /\ result.raised
       /\ result.error = "Invalid customer data: missing name"
       /\ FailedValidation
       /\ \A target \in {"payment_processor", "listeners", "notifier", "logger"} :
            CallsTo(target) = {}

C2_Witness ==
    /\ result.op = "process_transaction"
    /\ args.customer_data.name = ""
    /\ args.customer_data.contact_info.email = "jon@gmail.com"
    /\ result.raised

\* C3: for a customer whose contact info has neither an email nor a phone, the
\* customer validation run by the chain raises a validation error.
C3_NoChannelRejected ==
    (/\ result.op = "process_transaction"
     /\ ~Truthy(args.customer_data.contact_info.email)
     /\ ~Truthy(args.customer_data.contact_info.phone))
    => FailedValidation

\* C4: on a service assembled by the builder, process_transaction for a payment
\* with a non-positive amount or an empty source raises a validation error and
\* does not call the processor.
C4_BadPaymentRejected ==
    (/\ result.op = "process_transaction"
     /\ service.exists
     /\ service.validators = builder.validator
     /\ (args.payment_data.amount <= 0 \/ args.payment_data.source = ""))
    => /\ FailedValidation
       /\ CallsTo("payment_processor") = {}

\* C5: create_payment_processor decides by (type, currency) alone: OFFLINE gives
\* the offline processor, ONLINE with MXN the Stripe processor, ONLINE with another
\* currency the local processor, and any other type raises and returns nothing.
C5_FactoryRouting ==
    result.op = "create_payment_processor"
    => LET type == args.payment_data.type
           currency == args.payment_data.currency
       IN  /\ type = "OFFLINE"
                => ~result.raised /\ result.value = "OfflinePaymentProcessor"
           /\ (type = "ONLINE" /\ currency = "MXN")
                => ~result.raised /\ result.value = "StripePaymentProcessor"
           /\ (type = "ONLINE" /\ currency # "MXN")
                => ~result.raised /\ result.value = "LocalPaymentProcessor"
           /\ type \notin {"OFFLINE", "ONLINE"}
                => /\ result.raised
                   /\ result.error = "No se soporta este tipo de pago"
                   /\ result.value = NoneVal

C5_Witness ==
    /\ result.op = "create_payment_processor"
    /\ args.payment_data.type = "CRYPTO"
    /\ result.raised

MandatoryNames == {"payment_processor", "notifier", "validator", "logger", "listener"}

\* The mandatory collaborators the builder has not been given.
UnsetNames ==
    {name \in MandatoryNames :
        IF name = "validator" THEN builder.validator = NoChain ELSE builder[name] = NoneVal}

\* C6: build() returns a PaymentService exactly when the five mandatory
\* collaborators are set; otherwise it raises, and the names it lists are the
\* unset mandatory collaborators, each once, none else.
C6_BuildCompleteOrMissing ==
    result.op = "build"
    => /\ ~result.raised <=> UnsetNames = {}
       /\ ~result.raised
            => /\ result.value = "PaymentService"
               /\ service.exists
               /\ service.payment_processor = builder.payment_processor
               /\ service.notifier = builder.notifier
               /\ service.validators = builder.validator
               /\ service.logger = builder.logger
               /\ service.listeners = builder.listener
       /\ result.raised
            => /\ result.error = "Missing dependencies"
               /\ {result.missing[i] : i \in 1..Len(result.missing)} = UnsetNames
               /\ Len(result.missing) = Cardinality(UnsetNames)
               /\ result.missing # <<>>

C6_Witness ==
    /\ result.op = "build"
    /\ result.raised
    /\ result.missing = <<"notifier", "listener">>

\* The field a set_ method assigns.
OwnField(op) ==
    CASE op = "set_logger" -> "logger"
      [] op = "set_payment_processor" -> "payment_processor"
      [] op = "set_chain_of_validations" -> "validator"
      [] op = "set_notifier" -> "notifier"
      [] op = "set_listeners" -> "listener"

SetOps == {"set_logger", "set_payment_processor", "set_chain_of_validations",
           "set_notifier", "set_listeners"}

\* C7: a set_ method that succeeds returns the builder it was called on and
\* changes no field but its own; one that raises changes no field at all.
C7_SetFrame ==
    [][result'.op \in SetOps
       => /\ ~result'.raised
               => /\ result'.value = "self"
                  /\ \A field \in DOMAIN builder \ {OwnField(result'.op)} :
                        builder'[field] = builder[field]
          /\ result'.raised => builder' = builder]_vars

C7_Witness ==
    /\ result.op = "set_notifier"
    /\ result.raised
    /\ builder.notifier = "SMSNotifier"
    /\ builder.logger = "TransactionLogger"

\* C8: in the script, set_notifier chooses the email notifier when the customer
\* has an email, the SMS notifier when the customer has only a phone, and raises
\* when the customer has neither; then build() is not reached and there is no
\* service. A notifier the service calls is the one chosen.
C8_NotifierChoice ==
    (result.op \in {"set_notifier", "build", "process_transaction"})
    => LET email == Truthy(args.customer_data.contact_info.email)
           phone == Truthy(args.customer_data.contact_info.phone)
       IN  /\ email => builder.notifier = "EmailNotifier"
           /\ (~email /\ phone) => builder.notifier = "SMSNotifier"
           /\ (email \/ phone) => result.op # "set_notifier"
           /\ (~email /\ ~phone)
                => /\ result = Raised("set_notifier",
                                      "No se puede seleccionar la clase de notificación", <<>>)
                   /\ builder.notifier = NoneVal
                   /\ ~service.exists
                   /\ calls = <<>>
           /\ \A i \in CallsTo("notifier") : calls[i].obj = builder.notifier

C8_Witness ==
    /\ result.op = "set_notifier"
    /\ result.raised
    /\ ~service.exists
    /\ args.customer_data.name = "Jon Doe"

\* What an optional operation must have done on the service's optional
\* processor held in field target: nothing but raise when the processor is not
\* configured; otherwise one call of method on it, then, if that returned, one
\* call of logMethod on the logger with its response, and that response returned.
Delegates(target, method, callArgs, logMethod, logArgs, unsupported) ==
    /\ ~Truthy(service[target])
         => /\ result.raised
            /\ result.error = unsupported
            /\ result.response = NoResponse
            /\ calls = <<>>
    /\ Truthy(service[target])
         => /\ Len(calls) >= 1
            /\ calls[1].target = target /\ calls[1].obj = service[target]
            /\ calls[1].method = method /\ calls[1].args = callArgs
            /\ CallsTo(target) = {1}
            /\ \A i \in 1..Len(calls) : calls[i].target \in {target, "logger"}
            /\ IsRaised(calls[1]) => Len(calls) = 1 /\ result.raised
            /\ ~IsRaised(calls[1])
                 => /\ Len(calls) = 2
                    /\ calls[2].target = "logger" /\ calls[2].obj = service.logger
                    /\ calls[2].method = logMethod
                    /\ calls[2].args = logArgs \o <<calls[1].returns>>
                    /\ IsRaised(calls[2]) => result.raised
                    /\ ~IsRaised(calls[2])
                         => ~result.raised /\ result.response = calls[1].returns

\* C9: process_refund and setup_recurring raise at once, having called nothing,
\* when the service has no refund or recurring processor; otherwise they call that
\* processor once, then the logger once with its response, and return the
\* response; they never run the validation chain, the listeners or the notifier.
C9_OptionalOperations ==
    /\ result.op = "process_refund"
         => Delegates("refund_processor", "refund_payment", <<args.transaction_id>>,
                      "log_refund", <<args.transaction_id>>,
                      "this processor does not support refunds")
    /\ result.op = "setup_recurring"
         => Delegates("recurring_processor", "setup_recurring_payment",
                      <<args.customer_data, args.payment_data>>,
                      "log_transaction", <<args.customer_data, args.payment_data>>,
                      "this processor does not support recurring")

C9_Witness ==
    /\ result.op = "process_refund"
    /\ service.refund_processor = NoneVal
    /\ service.recurring_processor # NoneVal
    /\ result.raised
    /\ calls = <<>>

\* C10: when a call made by process_transaction fails, the service makes no
\* further call, raises that failure to the caller and returns no response.
C10_FailFast ==
    result.op = "process_transaction"
    => \A i \in 1..Len(calls) :
          IsRaised(calls[i])
          => /\ result.raised
             /\ result.response = NoResponse
             /\ \A j \in (i + 1)..Len(calls) : ~IsStage(calls[j])
             /\ calls[i].target \in Collaborators => result.error = ErrorOf(calls[i].target)
             /\ calls[i].target \in {"validators", "CustomerValidator", "_nex_handler"}
                  => result.error \in ValidationMessages
             /\ calls[i].target = "payment_processor" => CallsTo("logger") = {}

C10_Witness ==
    /\ result.op = "process_transaction"
    /\ result.raised
    /\ result.error = "NotifierError"
    /\ CallsTo("listeners") # {}
    /\ CallsTo("logger") = {}

IsChainCall(call) == ~IsStage(call)

\* The calls made inside the validation chain: the validations and the forwards.
ChainCalls == SelectSeq(calls, IsChainCall)

\* C11: in a chain of any length each handler validates first; when its
\* validation succeeds it forwards the same request once to the handler next,
\* if there is one, and does nothing more if there is none; when it fails the
\* handler forwards nothing, so no later handler runs, and the caller gets that
\* handler's error.
C11_ChainShortCircuits ==
    result.op = "process_transaction"
    => LET n == Len(service.validators)
           m == Len(ChainCalls)
           request == [customer_data |-> args.customer_data,
                       payment_data |-> args.payment_data]
       IN  /\ m >= 1 /\ m % 2 = 1 /\ m <= 2 * n - 1
           /\ \A i \in 1..m :
                IF i % 2 = 1
                THEN /\ ChainCalls[i].target = "CustomerValidator"
                     /\ ChainCalls[i].method = "validate"
                     /\ ChainCalls[i].args = <<request.customer_data>>
                     /\ i < m => ~IsRaised(ChainCalls[i])
                ELSE /\ ChainCalls[i].target = "_nex_handler"
                     /\ ChainCalls[i].method = "handle"
                     /\ ChainCalls[i].obj = service.validators[(i \div 2) + 1]
                     /\ ChainCalls[i].args = <<request>>
                     /\ IsRaised(ChainCalls[i]) <=> IsRaised(ChainCalls[m])
           /\ ~IsRaised(ChainCalls[m]) => m = 2 * n - 1
           /\ IsRaised(ChainCalls[m])
                => /\ result.raised
                   /\ result.error = validate(args.customer_data)
                   /\ result.error \in ValidationMessages
                   /\ Stages = <<calls[1]>>
                   /\ IsRaised(calls[1])

C11_Witness ==
    /\ result.op = "process_transaction"
    /\ Len(service.validators) = 2
    /\ result.raised
    /\ result.error = "Invalid customer data: missing name"
    /\ Len(ChainCalls) = 1

\* C12: get_notifier_implementation gives the email notifier when the customer
\* has an email (a phone or not), otherwise the SMS notifier when the customer
\* has a phone, otherwise it raises; so it chooses as set_notifier does.
C12_SelectsLikeBuilder ==
    result.op = "get_notifier_implementation"
    => LET email == Truthy(args.customer_data.contact_info.email)
           phone == Truthy(args.customer_data.contact_info.phone)
           chosen == set_notifier(NewBuilder, args.customer_data)
       IN  /\ email => ~result.raised /\ result.value = "EmailNotifier"
           /\ (~email /\ phone) => ~result.raised /\ result.value = "SMSNotifier"
           /\ (~email /\ ~phone) => result.raised /\ result.value = NoneVal
           /\ result.raised <=> chosen.raised
           /\ result.value = chosen.b.notifier

\* C13: a service returned by build() has neither a refund nor a recurring
\* processor, whatever the builder's fields of those names hold; so each
\* process_refund and setup_recurring on it raises the unsupported-operation
\* error, having called nothing, the logger included.
C13_BuiltServiceHasNoOptional ==
    service.exists
    => /\ service.refund_processor = NoneVal
       /\ service.recurring_processor = NoneVal
       /\ result.op = "process_refund"
            => /\ result = Raised("process_refund",
                                  "this processor does not support refunds", <<>>)
               /\ calls = <<>>
       /\ result.op = "setup_recurring"
            => /\ result = Raised("setup_recurring",
                                  "this processor does not support recurring", <<>>)
               /\ calls = <<>>

C13_Witness ==
    /\ result.op = "process_refund"
    /\ builder.refund_processor = "StripePaymentProcessor"
    /\ builder.recurring_processor = "StripePaymentProcessor"
    /\ service.exists
    /\ result.raised

====
